---- MODULE Spec2Model ----
(***************************************************************************)
(* Model of the balance ledger (UserService.deductBalance over the         *)
(* UsersRepository singleton and its single store client) and of the       *)
(* catalog cache pipeline (SkinService.getSkinsByWorker with the           *)
(* skin.worker.js fetch task).                                             *)
(***************************************************************************)
EXTENDS Integers, Sequences, FiniteSets, TLC

(* ---------------------------- bounds ----------------------------------- *)
\* number of deductBalance calls that may be in flight
NumCalls == 2
\* user ids a request may name; ids above SeedRows have no row
MaxUserId == 4
\* debit amounts are AmountStep * 1..MaxSteps
AmountStep == 400
MaxSteps == 3

(* ------------------------ program constants ---------------------------- *)
\* insertDefaultRows inserts three rows (SERIAL ids 1..3) ...
SeedRows == 3
\* ... each with balance 1000
SeedBalance == 1000

Calls == 1..NumCalls
UserIds == 1..MaxUserId
Rows == 1..SeedRows
Amounts == {AmountStep * k : k \in 1..MaxSteps}

VARIABLES
    committed,  \* users table as committed: row id -> balance
    working,    \* users table as seen by the client's session (own uncommitted writes included)
    inTxn,      \* the client's session has an open transaction block
    txnOwner,   \* the calls whose BEGIN opened the open transaction block (none or one)
    pc,         \* per call: the store command it is about to await, or idle/done
    userId,     \* per call: argument userId
    amount,     \* per call: argument amount
    res,        \* per call: the local `res` returned by getUserForUpdate
    result      \* per call: the object deductBalance returned

ledgerVars == <<committed, working, inTxn, txnOwner, pc, userId, amount, res, result>>

VARIABLES
    cache,         \* the entry under 'skins_data': present or not, and its string value
    rpc,           \* per request: idle / get (awaiting redis.get) / streaming / done
    cachedData,    \* per request: the local `cachedData` that redis.get resolved to
    cacheErr,      \* per request: the catch around the cache lookup was entered
    sent,          \* per request: the res.send calls made on its reply, in order
    rawStarted,    \* per request: res.raw has written its head (res.raw.write(''))
    rawEnded,      \* per request: res.raw.end() has been called
    rawChunks,     \* per request: the chunks given to res.raw.write, in order
    responseData,  \* per request: the local string `responseData`
    wpc,           \* per request: its worker: none / running / done (try completed) /
                   \*   failed (catch taken) / crashed (uncaught error)
    chan,          \* per request: worker events not yet handled by the parent, in emission order
    fetched        \* per request: how many times its worker called the price source

catalogVars == <<cache, rpc, cachedData, cacheErr, sent, rawStarted, rawEnded, rawChunks, responseData, wpc, chan, fetched>>

VARIABLES
    buyPc,     \* per call: simpleBuyItem is idle / deducting (awaiting deductBalance) / responded
    buyBody,   \* per call: req.body, its userId and amount as JavaScript values
    buyReply   \* per call: the responses simpleBuyItem sent, in order

buyVars == <<buyPc, buyBody, buyReply>>

VARIABLES
    authPc,      \* the request on a /users route: idle / preHandler / handler / done
    authRoute,   \* the route it matched
    authHeader,  \* req.headers['authorization']
    authReply,   \* the statuses authJwt sent, in order
    handlerRan   \* whether the route handler was run for it

authVars == <<authPc, authRoute, authHeader, authReply, handlerRan>>

VARIABLES
    op,           \* per call: the user operation the call is (none before it starts)
    pwCommitted,  \* per row: the durable password of the account
    pwWorking,    \* per row: the password as the store session sees it
    pwTarget,     \* per call of changePassword: user.id of the account found by email
    pwNew         \* per call of changePassword: newPassword

usersVars == <<op, pwCommitted, pwWorking, pwTarget, pwNew>>

VARIABLES
    lookPc,       \* the GET /users/:id request: idle / query / done
    lookId,       \* req.params.id
    lookUserId,   \* parseInt(id, 10)
    lookQueried,  \* whether UserService.getUserById was called for it
    lookReply     \* the statuses getUserById sent, in order

lookupVars == <<lookPc, lookId, lookUserId, lookQueried, lookReply>>

VARIABLES
    bootPc,       \* the process: down / createTable / getUsers / seed / up
    boots,        \* how many times the process was started
    tableExists,  \* whether the users table exists in the store
    users,        \* the balances of the rows of the users table, by id
    existsRows    \* exists_default_rows.rows of the running startup

bootVars == <<bootPc, boots, tableExists, users, existsRows>>

VARIABLES
    log,     \* per call: the store commands deductBalance issued, in order, and how each went
    caught,  \* per call: the command whose error the catch of deductBalance holds
    faults   \* how many store commands were rejected so far

faultVars == <<log, caught, faults>>

VARIABLES
    disconnected  \* per request: the client closed the connection while the response was streaming

connVars == <<disconnected>>

VARIABLES
    mergePc,              \* fetchItems of one worker: fetch / merge / posted
    responseNonTradable,  \* responseNonTradable.data
    responseTradable,     \* responseTradable.data
    mergedItems           \* items, the merged records

mergeVars == <<mergePc, responseNonTradable, responseTradable, mergedItems>>

vars == <<ledgerVars, catalogVars, buyVars, authVars, usersVars, lookupVars, bootVars, faultVars, connVars, mergeVars>>

storeVars == <<committed, working, inTxn, txnOwner>>

NoRes == [found |-> FALSE, balance |-> 0]
NoResult == [success |-> FALSE, msg |-> "", balance |-> 0]

(* -------------------- the session of the shared client ----------------- *)
\* 'BEGIN': opens a transaction block; inside one it only raises a warning
SessionBegin(c) ==
    /\ inTxn' = TRUE
    /\ txnOwner' = IF inTxn THEN txnOwner ELSE {c}
    /\ UNCHANGED <<committed, working>>

\* 'ROLLBACK': discards the block's writes; outside a block it only raises a warning
SessionRollback ==
    /\ inTxn' = FALSE
    /\ txnOwner' = {}
    /\ working' = committed
    /\ UNCHANGED committed

\* 'COMMIT': makes the block's writes durable; outside a block it only raises a warning
SessionCommit ==
    /\ inTxn' = FALSE
    /\ txnOwner' = {}
    /\ committed' = working
    /\ UNCHANGED working

\* 'UPDATE users SET balance = $1 WHERE id = $2': autocommits outside a block
SessionUpdate(u, b) ==
    /\ working' = IF u \in Rows THEN [working EXCEPT ![u] = b] ELSE working
    /\ committed' = IF inTxn THEN committed ELSE working'
    /\ UNCHANGED <<inTxn, txnOwner>>

\* 'SELECT * FROM users WHERE id = $1 FOR UPDATE': rows[0], or undefined
SessionSelect(u) ==
    IF u \in Rows THEN [found |-> TRUE, balance |-> working[u]] ELSE NoRes

(* ------------------------- deductBalance ------------------------------- *)
\* mutants of the balance test: comparison inverted; test dropped
InsufficientInverted(balance, amt) == balance > amt
InsufficientDropped(balance, amt) == FALSE

\* the balance test of deductBalance
Insufficient(balance, amt) == balance < amt

\* mutant of the new balance: the amount is credited
NewBalanceCredit(balance, amt) == balance + amt

\* the new balance deductBalance writes
NewBalance(balance, amt) == balance - amt

\* a request enters deductBalance(userId, amount); its first await is begin()
Start(c) ==
    /\ pc[c] = "idle"
    /\ \E u \in UserIds, a \in Amounts :
          /\ userId' = [userId EXCEPT ![c] = u]
          /\ amount' = [amount EXCEPT ![c] = a]
    /\ pc' = [pc EXCEPT ![c] = "begin"]
    /\ UNCHANGED <<storeVars, res, result>>

\* await this.usersRepository.begin()
Begin(c) ==
    /\ pc[c] = "begin"
    /\ SessionBegin(c)
    /\ pc' = [pc EXCEPT ![c] = "getUserForUpdate"]
    /\ UNCHANGED <<userId, amount, res, result>>

\* const res = await getUserForUpdate(userId), then the two tests on it
GetUserForUpdate(c) ==
    /\ pc[c] = "getUserForUpdate"
    /\ LET r == SessionSelect(userId[c]) IN
          /\ res' = [res EXCEPT ![c] = r]
          /\ pc' = [pc EXCEPT ![c] =
                       IF ~r.found THEN "rollBackNotFound"
                       ELSE IF Insufficient(r.balance, amount[c]) THEN "rollBackInsufficient"
                       ELSE "updateUserBalance"]
    /\ UNCHANGED <<storeVars, userId, amount, result>>

\* mutant of the rejection path: COMMIT is issued where ROLLBACK belongs
RollBackCommits(c) ==
    /\ pc[c] \in {"rollBackNotFound", "rollBackInsufficient"}
    /\ SessionCommit
    /\ result' = [result EXCEPT ![c] =
                     [success |-> FALSE,
                      msg |-> IF pc[c] = "rollBackNotFound" THEN "User not found"
                              ELSE "Insufficient balance",
                      balance |-> 0]]
    /\ pc' = [pc EXCEPT ![c] = "done"]
    /\ UNCHANGED <<userId, amount, res>>

\* await this.usersRepository.rollBack(), then return the rejection
RollBack(c) ==
    /\ pc[c] \in {"rollBackNotFound", "rollBackInsufficient"}
    /\ SessionRollback
    /\ result' = [result EXCEPT ![c] =
                     [success |-> FALSE,
                      msg |-> IF pc[c] = "rollBackNotFound" THEN "User not found"
                              ELSE "Insufficient balance",
                      balance |-> 0]]
    /\ pc' = [pc EXCEPT ![c] = "done"]
    /\ UNCHANGED <<userId, amount, res>>

\* await this.usersRepository.updateUserBalance(userId, newBalance)
UpdateUserBalance(c) ==
    /\ pc[c] = "updateUserBalance"
    /\ SessionUpdate(userId[c], NewBalance(res[c].balance, amount[c]))
    /\ pc' = [pc EXCEPT ![c] = "commit"]
    /\ UNCHANGED <<userId, amount, res, result>>

\* await this.usersRepository.commit(), then return success
Commit(c) ==
    /\ pc[c] = "commit"
    /\ SessionCommit
    /\ result' = [result EXCEPT ![c] =
                     [success |-> TRUE, msg |-> "",
                      balance |-> NewBalance(res[c].balance, amount[c])]]
    /\ pc' = [pc EXCEPT ![c] = "done"]
    /\ UNCHANGED <<userId, amount, res>>

(* ======================= catalog cache pipeline ======================== *)
\* number of getSkinsByWorker requests that may be in flight
NumReqs == 2
\* longest listing the price source returns
MaxListing == 1
\* largest price the price source quotes
MaxPrice == 1

\* redis.set(cacheKey, responseData, 'EX', 300)
CacheTtl == 300

Reqs == 1..NumReqs
Names == {"A", "B"}

\* a min_price of the price source: null or a number
NullPrice == [null |-> TRUE, val |-> 0]
Prices == {NullPrice} \cup {[null |-> FALSE, val |-> v] : v \in 0..MaxPrice}
\* JavaScript truthiness of a price: null and 0 are falsy
TruthyPrice(p) == ~p.null /\ p.val # 0

ListingEntries == [market_hash_name : Names, min_price : Prices]
Listings == UNION {[1..n -> ListingEntries] : n \in 0..MaxListing}

\* nonTradableItems.map((item, index) => ({...}))
MergeItems(nonTradableItems, tradableItems) ==
    [index \in 1..Len(nonTradableItems) |->
        [name |-> nonTradableItems[index].market_hash_name,
         min_price_non_tradable |-> nonTradableItems[index].min_price,
         min_price_tradable |->
            IF index <= Len(tradableItems) /\ TruthyPrice(tradableItems[index].min_price)
            THEN tradableItems[index].min_price
            ELSE NullPrice]]

(* JSON texts are sequences of tokens; string concatenation is \o *)
NoItem == [name |-> "", min_price_non_tradable |-> NullPrice, min_price_tradable |-> NullPrice]
Tok(t) == [t |-> t, item |-> NoItem]
ItemTok(i) == [t |-> "item", item |-> i]

\* JSON.stringify(items)
StringifyItems(items) ==
    <<Tok("[")>> \o [i \in 1..Len(items) |-> ItemTok(items[i])] \o <<Tok("]")>>

\* JSON.stringify({ error: 'Failed to fetch items', details: error.message })
ErrorText == <<Tok("{error}")>>

IsArrayText(text) ==
    /\ Len(text) >= 2
    /\ text[1] = Tok("[")
    /\ text[Len(text)] = Tok("]")
    /\ \A i \in 2..(Len(text) - 1) : text[i].t = "item"

\* JSON.parse(text) returns a value (otherwise it throws SyntaxError)
ParseOk(text) == text = ErrorText \/ IsArrayText(text)

\* JSON.parse(text), where it returns
Parse(text) ==
    IF IsArrayText(text)
    THEN [kind |-> "array", items |-> [i \in 1..(Len(text) - 2) |-> text[i + 1].item]]
    ELSE [kind |-> "error-object", items |-> <<>>]

\* JavaScript truthiness of what redis.get returned: null and '' are falsy
Truthy(got) == got.present /\ Len(got.value) > 0

NoEntry == [present |-> FALSE, value |-> <<>>, ttl |-> 0]

\* what redis.get(cacheKey) resolves to: the stored string, or null
Null == [present |-> FALSE, value |-> <<>>]
RedisGet == IF cache.present THEN [present |-> TRUE, value |-> cache.value] ELSE Null

\* worker events as the parent sees them
MessageEv(text) == [ev |-> "message", null |-> FALSE, text |-> text, code |-> 0]
NullEv == [ev |-> "message", null |-> TRUE, text |-> <<>>, code |-> 0]
ErrorEv == [ev |-> "error", null |-> FALSE, text |-> <<>>, code |-> 1]
ExitEv(code) == [ev |-> "exit", null |-> FALSE, text |-> <<>>, code |-> code]

\* res.send(...) / res.status(500).send(...)
Send(status, body, data) == [status |-> status, body |-> body, data |-> data]
NoData == [kind |-> "none", items |-> <<>>]

replyVars == <<sent, rawStarted, rawEnded, rawChunks>>

\* GET /skin/ reaches getSkinsByWorker; its first await is redis.get(cacheKey)
Request(r) ==
    /\ rpc[r] = "idle"
    /\ rpc' = [rpc EXCEPT ![r] = "get"]
    /\ UNCHANGED <<cache, cachedData, cacheErr, replyVars, responseData, wpc, chan, fetched>>

\* mutant of the hit branch: the `return` after res.send is missing, so the worker is spawned too
CacheGetNoReturn(r) ==
    /\ rpc[r] = "get"
    /\ cachedData' = [cachedData EXCEPT ![r] = RedisGet]
    /\ sent' = [sent EXCEPT ![r] =
                   IF Truthy(RedisGet)
                   THEN Append(@, Send(200, "Skins retrieved successfully (from cache)",
                                       Parse(RedisGet.value)))
                   ELSE @]
    /\ wpc' = [wpc EXCEPT ![r] = "running"]
    /\ rawStarted' = [rawStarted EXCEPT ![r] = TRUE]
    /\ responseData' = [responseData EXCEPT ![r] = <<>>]
    /\ rpc' = [rpc EXCEPT ![r] = "streaming"]
    /\ UNCHANGED <<cache, cacheErr, rawEnded, rawChunks, chan, fetched>>

\* mutant of the miss branch: an absent entry is answered as an error
CacheGetMissIsError(r) ==
    /\ rpc[r] = "get"
    /\ cachedData' = [cachedData EXCEPT ![r] = RedisGet]
    /\ sent' = [sent EXCEPT ![r] = Append(@,
                   IF Truthy(RedisGet) /\ ParseOk(RedisGet.value)
                   THEN Send(200, "Skins retrieved successfully (from cache)", Parse(RedisGet.value))
                   ELSE Send(500, "Internal server error (cache)", NoData))]
    /\ cacheErr' = [cacheErr EXCEPT ![r] = Truthy(RedisGet) /\ ~ParseOk(RedisGet.value)]
    /\ rpc' = [rpc EXCEPT ![r] = "done"]
    /\ UNCHANGED <<cache, rawStarted, rawEnded, rawChunks, responseData, wpc, chan, fetched>>

\* mutant of the miss branch: a request that misses while another request's
\* worker is running waits on that fetch and spawns no worker of its own
CacheGetCoalesces(r) ==
    /\ rpc[r] = "get"
    /\ cachedData' = [cachedData EXCEPT ![r] = RedisGet]
    /\ IF Truthy(RedisGet)
       THEN /\ sent' = [sent EXCEPT ![r] = Append(@,
                          IF ParseOk(RedisGet.value)
                          THEN Send(200, "Skins retrieved successfully (from cache)", Parse(RedisGet.value))
                          ELSE Send(500, "Internal server error (cache)", NoData))]
            /\ cacheErr' = [cacheErr EXCEPT ![r] = ~ParseOk(RedisGet.value)]
            /\ rpc' = [rpc EXCEPT ![r] = "done"]
            /\ UNCHANGED <<rawStarted, responseData, wpc>>
       ELSE /\ wpc' = IF \E q \in Reqs : wpc[q] = "running" THEN wpc
                      ELSE [wpc EXCEPT ![r] = "running"]
            /\ rawStarted' = [rawStarted EXCEPT ![r] = TRUE]
            /\ responseData' = [responseData EXCEPT ![r] = <<>>]
            /\ rpc' = [rpc EXCEPT ![r] = "streaming"]
            /\ UNCHANGED <<sent, cacheErr>>
    /\ UNCHANGED <<cache, rawEnded, rawChunks, chan, fetched>>

\* redis.get resolves: hit -> one send; parse failure -> catch; miss -> spawn the worker
CacheGet(r) ==
    /\ rpc[r] = "get"
    /\ cachedData' = [cachedData EXCEPT ![r] = RedisGet]
    /\ IF Truthy(RedisGet)
       THEN /\ sent' = [sent EXCEPT ![r] = Append(@,
                          IF ParseOk(RedisGet.value)
                          THEN Send(200, "Skins retrieved successfully (from cache)", Parse(RedisGet.value))
                          ELSE Send(500, "Internal server error (cache)", NoData))]
            /\ cacheErr' = [cacheErr EXCEPT ![r] = ~ParseOk(RedisGet.value)]
            /\ rpc' = [rpc EXCEPT ![r] = "done"]
            /\ UNCHANGED <<rawStarted, responseData, wpc>>
       ELSE /\ wpc' = [wpc EXCEPT ![r] = "running"]
            /\ rawStarted' = [rawStarted EXCEPT ![r] = TRUE]
            /\ responseData' = [responseData EXCEPT ![r] = <<>>]
            /\ rpc' = [rpc EXCEPT ![r] = "streaming"]
            /\ UNCHANGED <<sent, cacheErr>>
    /\ UNCHANGED <<cache, rawEnded, rawChunks, chan, fetched>>

\* mutant of the catch: the `return` is missing, so the handler falls through to the fetch
CacheGetErrorFallsThrough(r) ==
    /\ rpc[r] = "get"
    /\ cacheErr' = [cacheErr EXCEPT ![r] = TRUE]
    /\ sent' = [sent EXCEPT ![r] = Append(@, Send(500, "Internal server error (cache)", NoData))]
    /\ wpc' = [wpc EXCEPT ![r] = "running"]
    /\ rawStarted' = [rawStarted EXCEPT ![r] = TRUE]
    /\ responseData' = [responseData EXCEPT ![r] = <<>>]
    /\ rpc' = [rpc EXCEPT ![r] = "streaming"]
    /\ UNCHANGED <<cache, cachedData, rawEnded, rawChunks, chan, fetched>>

\* redis.get rejects: the catch answers 500 and returns
CacheGetError(r) ==
    /\ rpc[r] = "get"
    /\ cacheErr' = [cacheErr EXCEPT ![r] = TRUE]
    /\ sent' = [sent EXCEPT ![r] = Append(@, Send(500, "Internal server error (cache)", NoData))]
    /\ rpc' = [rpc EXCEPT ![r] = "done"]
    /\ UNCHANGED <<cache, cachedData, rawStarted, rawEnded, rawChunks, responseData, wpc, chan, fetched>>

\* mutant of the try block: the termination message is posted before the payload
WorkerFetchOkNullFirst(r) ==
    /\ wpc[r] = "running"
    /\ \E nonTradableItems \in Listings, tradableItems \in Listings :
          chan' = [chan EXCEPT ![r] = @ \o
                     <<NullEv,
                       MessageEv(StringifyItems(MergeItems(nonTradableItems, tradableItems))),
                       ExitEv(0)>>]
    /\ fetched' = [fetched EXCEPT ![r] = @ + 1]
    /\ wpc' = [wpc EXCEPT ![r] = "done"]
    /\ UNCHANGED <<cache, rpc, cachedData, cacheErr, replyVars, responseData>>

\* fetchItems: both axios.get resolve; merged payload, then null; the worker then exits 0
WorkerFetchOk(r) ==
    /\ wpc[r] = "running"
    /\ \E nonTradableItems \in Listings, tradableItems \in Listings :
          chan' = [chan EXCEPT ![r] = @ \o
                     <<MessageEv(StringifyItems(MergeItems(nonTradableItems, tradableItems))),
                       NullEv, ExitEv(0)>>]
    /\ fetched' = [fetched EXCEPT ![r] = @ + 1]
    /\ wpc' = [wpc EXCEPT ![r] = "done"]
    /\ UNCHANGED <<cache, rpc, cachedData, cacheErr, replyVars, responseData>>

\* fetchItems: an axios.get rejects; the catch posts the error payload; the worker then exits 0
WorkerFetchFail(r) ==
    /\ wpc[r] = "running"
    /\ chan' = [chan EXCEPT ![r] = @ \o <<MessageEv(ErrorText), ExitEv(0)>>]
    /\ fetched' = [fetched EXCEPT ![r] = @ + 1]
    /\ wpc' = [wpc EXCEPT ![r] = "failed"]
    /\ UNCHANGED <<cache, rpc, cachedData, cacheErr, replyVars, responseData>>

\* the worker script throws outside fetchItems' try: 'error', then 'exit' with code 1
WorkerCrash(r) ==
    /\ wpc[r] = "running"
    /\ chan' = [chan EXCEPT ![r] = @ \o <<ErrorEv, ExitEv(1)>>]
    /\ wpc' = [wpc EXCEPT ![r] = "crashed"]
    /\ UNCHANGED <<cache, rpc, cachedData, cacheErr, replyVars, responseData, fetched>>

\* mutant of the 'message' handler: the chunk is written but not accumulated
OnMessageNoAccumulate(r) ==
    /\ rpc[r] = "streaming"
    /\ chan[r] # <<>>
    /\ Head(chan[r]).ev = "message"
    /\ LET message == Head(chan[r]) IN
          IF ~message.null
          THEN /\ rawChunks' = [rawChunks EXCEPT ![r] = Append(@, message.text)]
               /\ UNCHANGED <<rawEnded, responseData>>
          ELSE /\ rawEnded' = [rawEnded EXCEPT ![r] = TRUE]
               /\ UNCHANGED <<rawChunks, responseData>>
    /\ chan' = [chan EXCEPT ![r] = Tail(@)]
    /\ UNCHANGED <<cache, rpc, cachedData, cacheErr, sent, rawStarted, wpc, fetched>>

\* worker.on('message', ...)
OnMessage(r) ==
    /\ rpc[r] = "streaming"
    /\ chan[r] # <<>>
    /\ Head(chan[r]).ev = "message"
    /\ LET message == Head(chan[r]) IN
          IF ~message.null
          THEN /\ rawChunks' = [rawChunks EXCEPT ![r] = Append(@, message.text)]
               /\ responseData' = [responseData EXCEPT ![r] = @ \o message.text]
               /\ UNCHANGED rawEnded
          ELSE /\ rawEnded' = [rawEnded EXCEPT ![r] = TRUE]
               /\ UNCHANGED <<rawChunks, responseData>>
    /\ chan' = [chan EXCEPT ![r] = Tail(@)]
    /\ UNCHANGED <<cache, rpc, cachedData, cacheErr, sent, rawStarted, wpc, fetched>>

\* worker.on('error', ...)
OnError(r) ==
    /\ rpc[r] = "streaming"
    /\ chan[r] # <<>>
    /\ Head(chan[r]).ev = "error"
    /\ sent' = [sent EXCEPT ![r] = Append(@, Send(500, "Internal server error", NoData))]
    /\ chan' = [chan EXCEPT ![r] = Tail(@)]
    /\ UNCHANGED <<cache, rpc, cachedData, cacheErr, rawStarted, rawEnded, rawChunks, responseData, wpc, fetched>>

\* the cache write of the 'exit' handler
CacheSet(code, data) ==
    IF code # 0 THEN cache ELSE [present |-> TRUE, value |-> data, ttl |-> CacheTtl]

\* worker.on('exit', ...)
OnExit(r) ==
    /\ rpc[r] = "streaming"
    /\ chan[r] # <<>>
    /\ Head(chan[r]).ev = "exit"
    /\ cache' = CacheSet(Head(chan[r]).code, responseData[r])
    /\ chan' = [chan EXCEPT ![r] = Tail(@)]
    /\ rpc' = [rpc EXCEPT ![r] = "done"]
    /\ UNCHANGED <<cachedData, cacheErr, replyVars, responseData, wpc, fetched>>

\* the entry's lifetime of CacheTtl seconds runs out
Expire ==
    /\ cache.present
    /\ cache' = NoEntry
    /\ UNCHANGED <<rpc, cachedData, cacheErr, replyVars, responseData, wpc, chan, fetched>>

InitCatalog ==
    /\ cache = NoEntry
    /\ rpc = [r \in Reqs |-> "idle"]
    /\ cachedData = [r \in Reqs |-> Null]
    /\ cacheErr = [r \in Reqs |-> FALSE]
    /\ sent = [r \in Reqs |-> <<>>]
    /\ rawStarted = [r \in Reqs |-> FALSE]
    /\ rawEnded = [r \in Reqs |-> FALSE]
    /\ rawChunks = [r \in Reqs |-> <<>>]
    /\ responseData = [r \in Reqs |-> <<>>]
    /\ wpc = [r \in Reqs |-> "none"]
    /\ chan = [r \in Reqs |-> <<>>]
    /\ fetched = [r \in Reqs |-> 0]

NextCatalog ==
    /\ \/ \E r \in Reqs :
             \/ Request(r)
             \/ CacheGet(r)
             \/ CacheGetError(r)
             \/ WorkerFetchOk(r)
             \/ WorkerFetchFail(r)
             \/ WorkerCrash(r)
             \/ OnMessage(r)
             \/ OnError(r)
             \/ OnExit(r)
       \/ Expire
    /\ UNCHANGED <<ledgerVars, buyVars, authVars, usersVars, lookupVars, bootVars, faultVars, connVars, mergeVars>>

(* ============================ POST /users/buy ========================== *)
\* JavaScript values a JSON body field can hold, with what ToNumber makes of them
\* (nan: ToNumber gives NaN; num: the number otherwise)
JsUndefined == [type |-> "undefined", num |-> 0, nan |-> TRUE]
JsNumber(n) == [type |-> "number", num |-> n, nan |-> FALSE]
JsWord == [type |-> "string", num |-> 0, nan |-> TRUE]
JsTrue == [type |-> "boolean", num |-> 1, nan |-> FALSE]

\* !v
Falsy(v) == v.type = "undefined" \/ (v.type \in {"number", "boolean"} /\ v.num = 0)
\* isNaN(v)
IsNaN(v) == v.nan
\* v <= 0
LeqZero(v) == ~v.nan /\ v.num <= 0

\* bodies a client may post: fields missing, a non-numeric word, `true` as amount,
\* and numbers: zero, an account that exists and one that does not; a negative
\* amount, zero, the least and the greatest amount
BodyUserIds == {JsUndefined, JsWord} \cup {JsNumber(n) : n \in {0, 1, MaxUserId}}
BodyAmounts ==
    {JsUndefined, JsWord, JsTrue}
        \cup {JsNumber(n) : n \in {0 - AmountStep, 0, AmountStep, AmountStep * MaxSteps}}
NoBody == [userId |-> JsUndefined, amount |-> JsUndefined]

\* if (!userId || !amount || isNaN(userId) || isNaN(amount) || amount <= 0)
InvalidBody(b) ==
    Falsy(b.userId) \/ Falsy(b.amount) \/ IsNaN(b.userId) \/ IsNaN(b.amount) \/ LeqZero(b.amount)

NoUser == [id |-> 0, balance |-> 0]
BuyResponse(status, msg, user) == [status |-> status, msg |-> msg, user |-> user]

\* simpleBuyItem up to its await: validation, then either 400 or the call of deductBalance
BuyRequest(c) ==
    /\ buyPc[c] = "idle"
    /\ pc[c] = "idle"
    /\ \E u \in BodyUserIds, a \in BodyAmounts :
          LET b == [userId |-> u, amount |-> a] IN
          /\ buyBody' = [buyBody EXCEPT ![c] = b]
          /\ IF InvalidBody(b)
             THEN /\ buyReply' = [buyReply EXCEPT ![c] =
                                    Append(@, BuyResponse(400, "Invalid userId or amount", NoUser))]
                  /\ buyPc' = [buyPc EXCEPT ![c] = "responded"]
                  /\ UNCHANGED <<pc, userId, amount>>
             ELSE /\ userId' = [userId EXCEPT ![c] = u.num]
                  /\ amount' = [amount EXCEPT ![c] = a.num]
                  /\ pc' = [pc EXCEPT ![c] = "begin"]
                  /\ buyPc' = [buyPc EXCEPT ![c] = "deducting"]
                  /\ UNCHANGED buyReply
    /\ UNCHANGED <<storeVars, res, result>>

\* mutant of the response: 200 is sent whatever deductBalance returned
BuyRespondAlways200(c) ==
    /\ buyPc[c] = "deducting"
    /\ pc[c] = "done"
    /\ buyReply' = [buyReply EXCEPT ![c] =
                      Append(@, BuyResponse(200, "Balance deducted successfully",
                                            [id |-> userId[c], balance |-> result[c].balance]))]
    /\ buyPc' = [buyPc EXCEPT ![c] = "responded"]
    /\ UNCHANGED <<ledgerVars, buyBody>>

\* simpleBuyItem after deductBalance returned: 200 with result.user, or 400 with result.msg
BuyRespond(c) ==
    /\ buyPc[c] = "deducting"
    /\ pc[c] = "done"
    /\ buyReply' = [buyReply EXCEPT ![c] = Append(@,
                      IF result[c].success
                      THEN BuyResponse(200, "Balance deducted successfully",
                                       [id |-> userId[c], balance |-> result[c].balance])
                      ELSE BuyResponse(400, result[c].msg, NoUser))]
    /\ buyPc' = [buyPc EXCEPT ![c] = "responded"]
    /\ UNCHANGED <<ledgerVars, buyBody>>

InitBuy ==
    /\ buyPc = [c \in Calls |-> "idle"]
    /\ buyBody = [c \in Calls |-> NoBody]
    /\ buyReply = [c \in Calls |-> <<>>]

NextBuy ==
    /\ \E c \in Calls :
          \/ BuyRequest(c)
          \/ Begin(c) /\ UNCHANGED buyVars
          \/ GetUserForUpdate(c) /\ UNCHANGED buyVars
          \/ RollBack(c) /\ UNCHANGED buyVars
          \/ UpdateUserBalance(c) /\ UNCHANGED buyVars
          \/ Commit(c) /\ UNCHANGED buyVars
          \/ BuyRespond(c)
    /\ UNCHANGED <<catalogVars, authVars, usersVars, lookupVars, bootVars, faultVars, connVars, mergeVars>>

(* ============================== authJwt ================================ *)
MaxHeaderLen == 3

\* the routes of userRoute and whether authJwt is their preHandler
Routes ==
    { [method |-> "GET", path |-> "/", preHandler |-> TRUE],
      [method |-> "POST", path |-> "/login", preHandler |-> FALSE],
      [method |-> "GET", path |-> "/:id", preHandler |-> TRUE],
      [method |-> "POST", path |-> "/buy", preHandler |-> TRUE],
      [method |-> "PATCH", path |-> "/change-password", preHandler |-> TRUE] }

\* a header value is a string: here a sequence of spaces and space-free pieces
\* (a scheme word, a token signed with the secret, a token that is not, an expired one)
Space == " "
Pieces == {"Bearer", "good", "bad", "expired"}
HeaderSeqs(n) == UNION { [1..k -> Pieces \cup {Space}] : k \in 0..n }
NoHeader == [present |-> FALSE, value |-> <<>>]
Headers == {NoHeader} \cup { [present |-> TRUE, value |-> h] : h \in HeaderSeqs(MaxHeaderLen) }

\* value.split(' '): the words between the spaces, empty words included
RECURSIVE Split(_)
Split(h) ==
    IF h = <<>> THEN << <<>> >>
    ELSE LET rest == Split(Tail(h)) IN
         IF Head(h) = Space THEN << <<>> >> \o rest
         ELSE << <<Head(h)>> \o rest[1] >> \o Tail(rest)

\* req.headers['authorization']?.split(' ')[1]
Undefined == [defined |-> FALSE, word |-> <<>>]
TokenOf(header) ==
    IF ~header.present THEN Undefined
    ELSE LET words == Split(header.value) IN
         IF Len(words) >= 2 THEN [defined |-> TRUE, word |-> words[2]] ELSE Undefined

\* !token
NoToken(token) == ~token.defined \/ token.word = <<>>

\* verify(token, jwtSecret) returns rather than throws
Verify(token) == token.word = <<"good">>

\* a request arrives on some route with some Authorization header
AuthRequest ==
    /\ authPc \in {"idle", "done"}
    /\ \E route \in Routes, header \in Headers :
          /\ authRoute' = route
          /\ authHeader' = header
          /\ authPc' = IF route.preHandler THEN "preHandler" ELSE "handler"
    /\ authReply' = <<>>
    /\ handlerRan' = FALSE

\* mutant of authJwt: the result of verify is ignored
AuthJwtIgnoresVerify ==
    /\ authPc = "preHandler"
    /\ LET token == TokenOf(authHeader) IN
          IF NoToken(token)
          THEN authReply' = Append(authReply, 403) /\ authPc' = "done"
          ELSE authReply' = authReply /\ authPc' = "handler"
    /\ UNCHANGED <<authRoute, authHeader, handlerRan>>

\* the preHandler; a preHandler that sent a reply ends the request
AuthJwt ==
    /\ authPc = "preHandler"
    /\ LET token == TokenOf(authHeader) IN
          IF NoToken(token)
          THEN authReply' = Append(authReply, 403) /\ authPc' = "done"
          ELSE IF ~Verify(token)
          THEN authReply' = Append(authReply, 401) /\ authPc' = "done"
          ELSE authReply' = authReply /\ authPc' = "handler"
    /\ UNCHANGED <<authRoute, authHeader, handlerRan>>

\* the route handler runs
Handler ==
    /\ authPc = "handler"
    /\ handlerRan' = TRUE
    /\ authPc' = "done"
    /\ UNCHANGED <<authRoute, authHeader, authReply>>

InitAuth ==
    /\ authPc = "idle"
    /\ authRoute = CHOOSE route \in Routes : route.path = "/"
    /\ authHeader = NoHeader
    /\ authReply = <<>>
    /\ handlerRan = FALSE

NextAuth ==
    /\ \/ AuthRequest
       \/ AuthJwt
       \/ Handler
    /\ UNCHANGED <<ledgerVars, catalogVars, buyVars, usersVars, lookupVars, bootVars, faultVars, connVars, mergeVars>>

(* ===================== the other user operations ======================= *)
Passwords == {"pw0", "pw1"}
\* emails a body may name: those of the rows, and one no row has
NoRow == 0
Emails == Rows \cup {NoRow}

\* 'SELECT * FROM users', 'SELECT * FROM users WHERE id = $1',
\* 'SELECT * FROM users WHERE email = $1': the session is left as it was
SessionQuery == UNCHANGED <<storeVars, pwCommitted, pwWorking>>

\* mutant of the password update: the statement sets the balance column as well
SessionChangePasswordSetsBalance(u, p) ==
    /\ pwWorking' = [pwWorking EXCEPT ![u] = p]
    /\ pwCommitted' = IF inTxn THEN pwCommitted ELSE pwWorking'
    /\ working' = [working EXCEPT ![u] = 0]
    /\ committed' = IF inTxn THEN committed ELSE working'
    /\ UNCHANGED <<inTxn, txnOwner>>

\* 'UPDATE users SET password = $1 WHERE id = $2': autocommits outside a block
SessionChangePassword(u, p) ==
    /\ pwWorking' = [pwWorking EXCEPT ![u] = p]
    /\ pwCommitted' = IF inTxn THEN pwCommitted ELSE pwWorking'
    /\ UNCHANGED storeVars

\* UserController.getUsers -> UserService.getUsers -> UsersRepository.getUsers
GetUsers(c) ==
    /\ pc[c] = "idle"
    /\ SessionQuery
    /\ op' = [op EXCEPT ![c] = "getUsers"]
    /\ pc' = [pc EXCEPT ![c] = "done"]
    /\ UNCHANGED <<userId, amount, res, result, pwTarget, pwNew>>

\* UserController.getUserById -> UserService.getUserById -> UsersRepository.getUserById
GetUserById(c) ==
    /\ pc[c] = "idle"
    /\ \E u \in UserIds : userId' = [userId EXCEPT ![c] = u]
    /\ SessionQuery
    /\ op' = [op EXCEPT ![c] = "getUserById"]
    /\ pc' = [pc EXCEPT ![c] = "done"]
    /\ UNCHANGED <<amount, res, result, pwTarget, pwNew>>

\* UserController.login -> UserService.getUserByEmail; compare and sign touch no store
Login(c) ==
    /\ pc[c] = "idle"
    /\ SessionQuery
    /\ op' = [op EXCEPT ![c] = "login"]
    /\ pc' = [pc EXCEPT ![c] = "done"]
    /\ UNCHANGED <<userId, amount, res, result, pwTarget, pwNew>>

\* UserController.changePassword up to UserService.changePassword: the body
\* checks, getUserByEmail, and the comparison of oldPassword with the stored one
GetUserByEmail(c) ==
    /\ pc[c] = "idle"
    /\ SessionQuery
    /\ op' = [op EXCEPT ![c] = "changePassword"]
    /\ \E email \in Emails, oldPassword \in Passwords, newPassword \in Passwords :
          IF oldPassword = newPassword \/ email \notin Rows
             \/ pwWorking[email] # oldPassword
          THEN /\ pc' = [pc EXCEPT ![c] = "done"]
               /\ UNCHANGED <<pwTarget, pwNew>>
          ELSE /\ pc' = [pc EXCEPT ![c] = "changePassword"]
               /\ pwTarget' = [pwTarget EXCEPT ![c] = email]
               /\ pwNew' = [pwNew EXCEPT ![c] = newPassword]
    /\ UNCHANGED <<userId, amount, res, result>>

\* UserService.changePassword -> UsersRepository.changePassword, then the 200
ChangePassword(c) ==
    /\ pc[c] = "changePassword"
    /\ SessionChangePassword(pwTarget[c], pwNew[c])
    /\ pc' = [pc EXCEPT ![c] = "done"]
    /\ UNCHANGED <<op, pwTarget, pwNew, userId, amount, res, result>>

InitUsers ==
    /\ op = [c \in Calls |-> "none"]
    /\ pwCommitted = [u \in Rows |-> "pw0"]
    /\ pwWorking = [u \in Rows |-> "pw0"]
    /\ pwTarget = [c \in Calls |-> NoRow]
    /\ pwNew = [c \in Calls |-> "pw0"]

\* the user operations side by side on the one store session; COMMIT and
\* ROLLBACK act on the session's password writes as on its balance writes
NextUsers ==
    /\ \E c \in Calls :
          \/ Start(c) /\ op' = [op EXCEPT ![c] = "deductBalance"]
                /\ UNCHANGED <<pwCommitted, pwWorking, pwTarget, pwNew>>
          \/ Begin(c) /\ UNCHANGED usersVars
          \/ GetUserForUpdate(c) /\ UNCHANGED usersVars
          \/ RollBack(c) /\ pwWorking' = pwCommitted
                /\ UNCHANGED <<op, pwCommitted, pwTarget, pwNew>>
          \/ UpdateUserBalance(c) /\ UNCHANGED usersVars
          \/ Commit(c) /\ pwCommitted' = pwWorking
                /\ UNCHANGED <<op, pwWorking, pwTarget, pwNew>>
          \/ GetUsers(c)
          \/ GetUserById(c)
          \/ Login(c)
          \/ GetUserByEmail(c)
          \/ ChangePassword(c)
    /\ UNCHANGED <<catalogVars, buyVars, authVars, lookupVars, bootVars, faultVars, connVars, mergeVars>>

(* ============================ GET /users/:id =========================== *)
MaxIdLen == 3

\* the characters an id parameter is made of here: digits, a sign, a letter
DigitChars == {"0", "1", "4"}
IdChars == DigitChars \cup {"-", "a"}
IdParams == UNION { [1..k -> IdChars] : k \in 1..MaxIdLen }

DigitValue(ch) == CASE ch = "0" -> 0 [] ch = "1" -> 1 [] ch = "4" -> 4

\* the longest prefix of digits
RECURSIVE DigitPrefix(_)
DigitPrefix(str) ==
    IF str = <<>> \/ Head(str) \notin DigitChars THEN <<>>
    ELSE <<Head(str)>> \o DigitPrefix(Tail(str))

\* the number a string of digits writes in base 10
RECURSIVE DigitsNumber(_)
DigitsNumber(digits) ==
    IF digits = <<>> THEN 0
    ELSE 10 * DigitsNumber(SubSeq(digits, 1, Len(digits) - 1)) + DigitValue(digits[Len(digits)])

\* parseInt(str, 10): an optional sign, then the longest prefix of digits;
\* NaN when there is no digit there; what follows the digits is ignored
NaN == [nan |-> TRUE, num |-> 0]
ParseInt(str) ==
    LET negative == str # <<>> /\ Head(str) = "-"
        digits == DigitPrefix(IF negative THEN Tail(str) ELSE str)
    IN  IF digits = <<>> THEN NaN
        ELSE [nan |-> FALSE,
              num |-> IF negative THEN 0 - DigitsNumber(digits) ELSE DigitsNumber(digits)]

\* getUserById up to its await: parseInt, the isNaN test, then 400 or the query
LookupRequest ==
    /\ lookPc \in {"idle", "done"}
    /\ \E id \in IdParams :
          /\ lookId' = id
          /\ lookUserId' = ParseInt(id)
          /\ IF ParseInt(id).nan
             THEN lookReply' = <<400>> /\ lookPc' = "done"
             ELSE lookReply' = <<>> /\ lookPc' = "query"
    /\ lookQueried' = FALSE

\* UserService.getUserById(userId) and the answer: 404 if (!user), else 200
LookupQuery ==
    /\ lookPc = "query"
    /\ lookQueried' = TRUE
    /\ lookReply' = Append(lookReply, IF lookUserId.num \in Rows THEN 200 ELSE 404)
    /\ lookPc' = "done"
    /\ UNCHANGED <<lookId, lookUserId>>

InitLookup ==
    /\ lookPc = "idle"
    /\ lookId = <<"1">>
    /\ lookUserId = NaN
    /\ lookQueried = FALSE
    /\ lookReply = <<>>

NextLookup ==
    /\ \/ LookupRequest
       \/ LookupQuery
    /\ UNCHANGED <<ledgerVars, catalogVars, buyVars, authVars, usersVars, bootVars, faultVars, connVars, mergeVars>>

(* ============================== startup ================================ *)
MaxBoots == 3

\* the rows insertDefaultRows inserts
DefaultRows == [i \in 1..SeedRows |-> SeedBalance]

\* mutant of the seeding test: the table is taken to be empty whatever it holds
TableEmptyAlways(rows) == TRUE

\* !exists_default_rows.rows.length
TableEmpty(rows) == Len(rows) = 0

\* the process is started and listens; the callback of app.listen begins
Listen ==
    /\ bootPc = "down"
    /\ boots < MaxBoots
    /\ boots' = boots + 1
    /\ bootPc' = "createTable"
    /\ UNCHANGED <<tableExists, users, existsRows>>

\* SkinsRepository.createTable(), UsersRepository.createTable(): IF NOT EXISTS
CreateTable ==
    /\ bootPc = "createTable"
    /\ tableExists' = TRUE
    /\ bootPc' = "getUsers"
    /\ UNCHANGED <<boots, users, existsRows>>

\* exists_default_rows = await UsersRepository.getUsers(), and the test on it
BootGetUsers ==
    /\ bootPc = "getUsers"
    /\ existsRows' = users
    /\ bootPc' = IF TableEmpty(users) THEN "seed" ELSE "up"
    /\ UNCHANGED <<boots, tableExists, users>>

\* await UsersRepository.insertDefaultRows(): the ids follow those in the table
InsertDefaultRows ==
    /\ bootPc = "seed"
    /\ users' = users \o DefaultRows
    /\ bootPc' = "up"
    /\ UNCHANGED <<boots, tableExists, existsRows>>

\* a successful deductBalance served by the running process
BootDebit ==
    /\ bootPc = "up"
    /\ \E u \in 1..Len(users), a \in Amounts :
          /\ ~Insufficient(users[u], a)
          /\ users' = [users EXCEPT ![u] = NewBalance(@, a)]
    /\ UNCHANGED <<bootPc, boots, tableExists, existsRows>>

\* the process ends: stopped, killed, or process.exit(1) in the callback
Exit ==
    /\ bootPc # "down"
    /\ bootPc' = "down"
    /\ UNCHANGED <<boots, tableExists, users, existsRows>>

\* the stopped service is pointed at a store that has no users table yet
FreshStore ==
    /\ bootPc = "down"
    /\ tableExists
    /\ tableExists' = FALSE
    /\ users' = <<>>
    /\ UNCHANGED <<bootPc, boots, existsRows>>

\* the service after its first startup, as the other specifications take it
InitBoot ==
    /\ bootPc = "up"
    /\ boots = 1
    /\ tableExists = TRUE
    /\ users = DefaultRows
    /\ existsRows = <<>>

NextBoot ==
    /\ \/ Listen
       \/ CreateTable
       \/ BootGetUsers
       \/ InsertDefaultRows
       \/ BootDebit
       \/ Exit
       \/ FreshStore
    /\ UNCHANGED <<ledgerVars, catalogVars, buyVars, authVars, usersVars, lookupVars, faultVars, connVars, mergeVars>>

(* ================== deductBalance with failing commands ================ *)
MaxFaults == 2

\* the store command deductBalance awaits at each of its positions
CmdAt(p) ==
    CASE p = "begin" -> "BEGIN"
      [] p = "getUserForUpdate" -> "SELECT"
      [] p \in {"rollBackNotFound", "rollBackInsufficient", "catch"} -> "ROLLBACK"
      [] p = "updateUserBalance" -> "UPDATE"
      [] p = "commit" -> "COMMIT"

Issued(c, ok) == log' = [log EXCEPT ![c] = Append(@, [cmd |-> CmdAt(pc[c]), ok |-> ok])]

\* the positions inside the try block of deductBalance
TryPositions ==
    {"begin", "getUserForUpdate", "rollBackNotFound", "rollBackInsufficient",
     "updateUserBalance", "commit"}

\* mutant of the try block: the exception leaves deductBalance uncaught
TryThrowsUncaught(c) ==
    /\ pc[c] \in TryPositions
    /\ faults < MaxFaults
    /\ faults' = faults + 1
    /\ Issued(c, FALSE)
    /\ caught' = [caught EXCEPT ![c] = CmdAt(pc[c])]
    /\ pc' = [pc EXCEPT ![c] = "thrown"]
    /\ UNCHANGED <<storeVars, userId, amount, res, result, buyVars>>

\* an awaited command of the try block rejects: control passes to catch (error)
TryThrows(c) ==
    /\ pc[c] \in TryPositions
    /\ faults < MaxFaults
    /\ faults' = faults + 1
    /\ Issued(c, FALSE)
    /\ caught' = [caught EXCEPT ![c] = CmdAt(pc[c])]
    /\ pc' = [pc EXCEPT ![c] = "catch"]
    /\ UNCHANGED <<storeVars, userId, amount, res, result, buyVars>>

\* mutant of the catch block: the rejection is returned without a ROLLBACK
CatchReturnsWithoutRollBack(c) ==
    /\ pc[c] = "catch"
    /\ result' = [result EXCEPT ![c] = [success |-> FALSE, msg |-> caught[c], balance |-> 0]]
    /\ pc' = [pc EXCEPT ![c] = "done"]
    /\ UNCHANGED <<storeVars, userId, amount, res, log, caught, faults, buyVars>>

\* catch: await this.usersRepository.rollBack(); return { success: false, msg: error }
CatchRollBack(c) ==
    /\ pc[c] = "catch"
    /\ SessionRollback
    /\ Issued(c, TRUE)
    /\ result' = [result EXCEPT ![c] = [success |-> FALSE, msg |-> caught[c], balance |-> 0]]
    /\ pc' = [pc EXCEPT ![c] = "done"]
    /\ UNCHANGED <<userId, amount, res, caught, faults, buyVars>>

\* catch: the rollBack() itself rejects, and deductBalance throws that error
CatchRollBackFails(c) ==
    /\ pc[c] = "catch"
    /\ faults < MaxFaults
    /\ faults' = faults + 1
    /\ Issued(c, FALSE)
    /\ caught' = [caught EXCEPT ![c] = "ROLLBACK"]
    /\ pc' = [pc EXCEPT ![c] = "thrown"]
    /\ UNCHANGED <<storeVars, userId, amount, res, result, buyVars>>

\* catch of simpleBuyItem: 500 'Internal Server Error'
BuyCatch(c) ==
    /\ buyPc[c] = "deducting"
    /\ pc[c] = "thrown"
    /\ buyReply' = [buyReply EXCEPT ![c] =
                      Append(@, BuyResponse(500, "Internal Server Error", NoUser))]
    /\ buyPc' = [buyPc EXCEPT ![c] = "responded"]
    /\ UNCHANGED <<ledgerVars, buyBody, faultVars>>

InitFault ==
    /\ log = [c \in Calls |-> <<>>]
    /\ caught = [c \in Calls |-> ""]
    /\ faults = 0

\* buy requests that pass validation, whose store commands may each succeed
\* or be rejected
NextFault ==
    /\ \E c \in Calls :
          \/ BuyRequest(c) /\ pc'[c] = "begin" /\ UNCHANGED faultVars
          \/ Begin(c) /\ Issued(c, TRUE) /\ UNCHANGED <<caught, faults, buyVars>>
          \/ GetUserForUpdate(c) /\ Issued(c, TRUE) /\ UNCHANGED <<caught, faults, buyVars>>
          \/ RollBack(c) /\ Issued(c, TRUE) /\ UNCHANGED <<caught, faults, buyVars>>
          \/ UpdateUserBalance(c) /\ Issued(c, TRUE) /\ UNCHANGED <<caught, faults, buyVars>>
          \/ Commit(c) /\ Issued(c, TRUE) /\ UNCHANGED <<caught, faults, buyVars>>
          \/ TryThrows(c)
          \/ CatchRollBack(c)
          \/ CatchRollBackFails(c)
          \/ BuyRespond(c) /\ UNCHANGED faultVars
          \/ BuyCatch(c)
    /\ UNCHANGED <<catalogVars, authVars, usersVars, lookupVars, bootVars, connVars, mergeVars>>

(* ========================= client disconnect =========================== *)
\* mutant of the disconnect: the running worker is terminated with the request
DisconnectTerminatesWorker(r) ==
    /\ rpc[r] = "streaming"
    /\ ~disconnected[r]
    /\ disconnected' = [disconnected EXCEPT ![r] = TRUE]
    /\ wpc' = [wpc EXCEPT ![r] = IF @ = "running" THEN "crashed" ELSE @]
    /\ chan' = [chan EXCEPT ![r] = IF wpc[r] = "running" THEN <<ExitEv(1)>> ELSE @]
    /\ UNCHANGED <<cache, rpc, cachedData, cacheErr, replyVars, responseData, fetched>>

\* the client closes the connection of a streaming response: getSkinsByWorker
\* registers no 'close' handler and never calls worker.terminate(); later
\* res.raw.write and res.raw.end calls are made as before and dropped by the socket
Disconnect(r) ==
    /\ rpc[r] = "streaming"
    /\ ~disconnected[r]
    /\ disconnected' = [disconnected EXCEPT ![r] = TRUE]
    /\ UNCHANGED catalogVars

InitConn == disconnected = [r \in Reqs |-> FALSE]

NextDisconnect ==
    /\ \/ \E r \in Reqs :
             \/ Request(r) /\ UNCHANGED connVars
             \/ CacheGet(r) /\ UNCHANGED connVars
             \/ CacheGetError(r) /\ UNCHANGED connVars
             \/ WorkerFetchOk(r) /\ UNCHANGED connVars
             \/ WorkerFetchFail(r) /\ UNCHANGED connVars
             \/ WorkerCrash(r) /\ UNCHANGED connVars
             \/ OnMessage(r) /\ UNCHANGED connVars
             \/ OnError(r) /\ UNCHANGED connVars
             \/ OnExit(r) /\ UNCHANGED connVars
             \/ Disconnect(r)
       \/ Expire /\ UNCHANGED connVars
    /\ UNCHANGED <<ledgerVars, buyVars, authVars, usersVars, lookupVars, bootVars, faultVars, mergeVars>>

(* ============================ the merge ================================ *)
\* both axios.get resolve with a listing each
FetchListings ==
    /\ mergePc = "fetch"
    /\ \E nonTradable \in Listings, tradable \in Listings :
          /\ responseNonTradable' = nonTradable
          /\ responseTradable' = tradable
    /\ mergePc' = "merge"
    /\ UNCHANGED mergedItems

\* const items = nonTradableItems.map(...)
Merge ==
    /\ mergePc = "merge"
    /\ mergedItems' = MergeItems(responseNonTradable, responseTradable)
    /\ mergePc' = "posted"
    /\ UNCHANGED <<responseNonTradable, responseTradable>>

\* the next worker starts its fetchItems
NextWorker ==
    /\ mergePc = "posted"
    /\ mergePc' = "fetch"
    /\ UNCHANGED <<responseNonTradable, responseTradable, mergedItems>>

InitMerge ==
    /\ mergePc = "fetch"
    /\ responseNonTradable = <<>>
    /\ responseTradable = <<>>
    /\ mergedItems = <<>>

NextMerge ==
    /\ \/ FetchListings
       \/ Merge
       \/ NextWorker
    /\ UNCHANGED <<ledgerVars, catalogVars, buyVars, authVars, usersVars, lookupVars, bootVars, faultVars, connVars>>

Init ==
    /\ committed = [u \in Rows |-> SeedBalance]
    /\ working = [u \in Rows |-> SeedBalance]
    /\ inTxn = FALSE
    /\ txnOwner = {}
    /\ pc = [c \in Calls |-> "idle"]
    /\ userId = [c \in Calls |-> 1]
    /\ amount = [c \in Calls |-> AmountStep]
    /\ res = [c \in Calls |-> NoRes]
    /\ result = [c \in Calls |-> NoResult]
    /\ InitCatalog
    /\ InitBuy
    /\ InitAuth
    /\ InitUsers
    /\ InitLookup
    /\ InitBoot
    /\ InitFault
    /\ InitConn
    /\ InitMerge

Next ==
    /\ \E c \in Calls :
          \/ Start(c)
          \/ Begin(c)
          \/ GetUserForUpdate(c)
          \/ RollBack(c)
          \/ UpdateUserBalance(c)
          \/ Commit(c)
    /\ UNCHANGED <<catalogVars, buyVars, authVars, usersVars, lookupVars, bootVars, faultVars, connVars, mergeVars>>

Spec == Init /\ [][Next]_vars

SpecCatalog == Init /\ [][NextCatalog]_vars

SpecBuy == Init /\ [][NextBuy]_vars

SpecAuth == Init /\ [][NextAuth]_vars

SpecUsers == Init /\ [][NextUsers]_vars

SpecLookup == Init /\ [][NextLookup]_vars

SpecBoot == Init /\ [][NextBoot]_vars

SpecFault == Init /\ [][NextFault]_vars

SpecDisconnect == Init /\ [][NextDisconnect]_vars

SpecMerge == Init /\ [][NextMerge]_vars

(* ============================ ledger claims ============================ *)
RECURSIVE SumAmounts(_)
SumAmounts(S) ==
    IF S = {} THEN 0
    ELSE LET c == CHOOSE x \in S : TRUE IN amount[c] + SumAmounts(S \ {c})

\* no call is between its first and its last store command
Quiescent == \A c \in Calls : pc[c] \in {"idle", "done"}

Succeeded(u) == {c \in Calls : pc[c] = "done" /\ result[c].success /\ userId[c] = u}

Stepped(c) == pc'[c] # pc[c]

\* C1: once all concurrent debits have returned, every account's committed
\* balance is its initial balance minus the amounts of the debits on it that
\* returned success (no lost update, no double-spend).
C1_SerialOutcome ==
    \A u \in Rows :
        (Quiescent /\ \A c \in Calls : pc[c] = "done" => userId[c] = u)
        => committed[u] = SeedBalance - SumAmounts(Succeeded(u))

\* C2: a debit run alone on an existing account with amount <= balance commits
\* balance - amount and returns success carrying that balance.
C2_SingleDebit ==
    \A c \in Calls :
        (/\ pc[c] = "done"
         /\ \A d \in Calls \ {c} : pc[d] = "idle"
         /\ userId[c] \in Rows
         /\ amount[c] <= SeedBalance)
        => /\ result[c] = [success |-> TRUE, msg |-> "", balance |-> SeedBalance - amount[c]]
           /\ committed[userId[c]] = SeedBalance - amount[c]

C2_Witness ==
    \E c \in Calls :
        /\ pc[c] = "done"
        /\ \A d \in Calls \ {c} : pc[d] = "idle"
        /\ result[c].success
        /\ committed[userId[c]] = SeedBalance - amount[c]

\* C3: a debit whose locked read returned a balance below the amount never
\* issues UPDATE or COMMIT, leaves the committed table unchanged with each of
\* its commands, and returns 'Insufficient balance'; run alone, the committed
\* balance is still the balance it read.
C3_InsufficientRejected ==
    [][\A c \in Calls :
          (Stepped(c) /\ res'[c].found /\ res'[c].balance < amount'[c])
          => /\ pc'[c] \in {"rollBackInsufficient", "done"}
             /\ committed' = committed
             /\ pc'[c] = "done" =>
                   /\ result'[c] = [success |-> FALSE, msg |-> "Insufficient balance", balance |-> 0]
                   /\ (\A d \in Calls \ {c} : pc[d] = "idle")
                         => committed'[userId[c]] = res'[c].balance]_vars

C3_Witness ==
    \E c \in Calls :
        /\ pc[c] = "done"
        /\ res[c].found
        /\ res[c].balance < amount[c]
        /\ result[c].msg = "Insufficient balance"
        /\ committed[userId[c]] = res[c].balance

\* C4: no command of a debit on a user id without a row changes the committed
\* balance of any row, whatever other debits are in flight, and the debit
\* returns 'User not found'.
C4_MissingUserFrame ==
    [][\A c \in Calls :
          (Stepped(c) /\ userId'[c] \notin Rows)
          => /\ committed' = committed
             /\ pc'[c] = "done" =>
                   result'[c] = [success |-> FALSE, msg |-> "User not found", balance |-> 0]]_vars

\* the missing-user debit has returned while another debit held an uncommitted UPDATE
C4_Witness ==
    \E c \in Calls, d \in Calls :
        /\ pc[c] = "done"
        /\ userId[c] \notin Rows
        /\ result[c].msg = "User not found"
        /\ pc[d] = "commit"

\* C5: the committed balance of every account is >= 0 in every reachable state.
C5_NonNegative == \A u \in Rows : committed[u] >= 0

\* two debits on one account that together exceed the seed balance both returned success
C5_Witness ==
    \E c \in Calls, d \in Calls :
        /\ c # d
        /\ userId[c] = userId[d]
        /\ userId[c] \in Rows
        /\ pc[c] = "done" /\ result[c].success
        /\ pc[d] = "done" /\ result[d].success
        /\ amount[c] + amount[d] > SeedBalance
        /\ committed[userId[c]] >= 0

\* C6: every BEGIN of a call opens a transaction of its own, and each later
\* command of the call executes inside the transaction that call opened.
C6_OwnTransaction ==
    [][\A c \in Calls :
          (Stepped(c) /\ pc[c] # "idle")
          => IF pc[c] = "begin" THEN ~inTxn ELSE txnOwner = {c}]_vars

\* what the claim expects of a debit run alone from the seeded table
AloneResult(c) ==
    IF userId[c] \notin Rows THEN [success |-> FALSE, msg |-> "User not found", balance |-> 0]
    ELSE IF SeedBalance < amount[c]
         THEN [success |-> FALSE, msg |-> "Insufficient balance", balance |-> 0]
         ELSE [success |-> TRUE, msg |-> "", balance |-> SeedBalance - amount[c]]

AloneBalance(c) ==
    IF SeedBalance < amount[c] THEN SeedBalance ELSE SeedBalance - amount[c]

\* C7: when the concurrent debits are all on different accounts, each returns
\* what it would return alone and leaves its account as it would alone.
C7_Independent ==
    (/\ Quiescent
     /\ \A c \in Calls, d \in Calls :
           (c # d /\ pc[c] = "done" /\ pc[d] = "done") => userId[c] # userId[d])
    => \A c \in Calls :
          pc[c] = "done" =>
             /\ result[c] = AloneResult(c)
             /\ userId[c] \in Rows => committed[userId[c]] = AloneBalance(c)

(* ============================ catalog claims =========================== *)
\* C8: the 'exit' handler of a request whose worker did not complete its
\* fetch leaves the cache as it was, and whatever the cache holds is a
\* complete item-list payload (never an error payload, never a partial one).
C8_CacheOnlyCleanFetch ==
    [][\A r \in Reqs :
          (rpc[r] = "streaming" /\ rpc'[r] = "done")
          => /\ wpc[r] # "done" => cache' = cache
             /\ cache'.present => IsArrayText(cache'.value)]_vars

\* C9: a request whose cache lookup returned a stored value has finished with
\* exactly one response, the parsed snapshot, and has spawned no worker,
\* started no stream and made no price-source request.
C9_HitNoFetch ==
    \A r \in Reqs :
        Truthy(cachedData[r])
        => /\ rpc[r] = "done"
           /\ Len(sent[r]) = 1
           /\ ParseOk(cachedData[r].value) =>
                 sent[r][1] = Send(200, "Skins retrieved successfully (from cache)",
                                   Parse(cachedData[r].value))
           /\ wpc[r] = "none"
           /\ fetched[r] = 0
           /\ ~rawStarted[r]
           /\ rawChunks[r] = <<>>
           /\ chan[r] = <<>>

C9_Witness ==
    \E r \in Reqs :
        /\ Truthy(cachedData[r])
        /\ IsArrayText(cachedData[r].value)
        /\ Len(cachedData[r].value) > 2
        /\ rpc[r] = "done"
        /\ Len(sent[r]) = 1
        /\ sent[r][1].status = 200
        /\ wpc[r] = "none"

\* C10: a request whose fetch failed ends with a failure response and without
\* the error payload having been written as a chunk of its stream.
C10_FetchFailedSurfaced ==
    \A r \in Reqs :
        (wpc[r] = "failed" /\ rpc[r] = "done")
        => /\ \E i \in 1..Len(sent[r]) : sent[r][i].status = 500
           /\ \A i \in 1..Len(rawChunks[r]) : rawChunks[r][i] # ErrorText

\* C11: a request that took the miss path and whose worker has exited has had
\* its output stream closed, whether the fetch succeeded or failed.
C11_StreamClosed ==
    \A r \in Reqs : (rpc[r] = "done" /\ rawStarted[r]) => rawEnded[r]

\* C12: a request whose cache lookup raised an error has answered once, with
\* the 500 cache error, and has spawned no worker, started no stream and made
\* no price-source request.
C12_CacheErrorFailsFast ==
    \A r \in Reqs :
        cacheErr[r]
        => /\ rpc[r] = "done"
           /\ sent[r] = <<Send(500, "Internal server error (cache)", NoData)>>
           /\ wpc[r] = "none"
           /\ fetched[r] = 0
           /\ ~rawStarted[r]
           /\ chan[r] = <<>>

\* the lookup failed while an entry was stored, and the request stopped there
C12_Witness ==
    \E r \in Reqs :
        /\ cacheErr[r]
        /\ cache.present
        /\ rpc[r] = "done"
        /\ wpc[r] = "none"
        /\ Len(sent[r]) = 1

RECURSIVE Concat(_)
Concat(chunks) == IF chunks = <<>> THEN <<>> ELSE Head(chunks) \o Concat(Tail(chunks))

\* C13: when the worker of a cleanly fetched request exits, the value stored
\* under the key is the in-order concatenation of the chunks written to that
\* request's stream, with the 300 s lifetime, and it parses to the item list
\* that a later hit returns.
C13_CacheEqualsStream ==
    [][\A r \in Reqs :
          (rpc[r] = "streaming" /\ rpc'[r] = "done" /\ wpc[r] = "done")
          => /\ cache' = [present |-> TRUE, value |-> Concat(rawChunks[r]), ttl |-> CacheTtl]
             /\ IsArrayText(cache'.value)
             /\ \A q \in Reqs :
                   (Truthy(cachedData[q]) /\ cachedData[q].value = cache'.value)
                   => sent[q][1].data = Parse(Concat(rawChunks[r]))]_vars

\* a later request was answered from the entry a cleanly fetched request stored
C13_Witness ==
    \E r \in Reqs, q \in Reqs :
        /\ rpc[r] = "done" /\ wpc[r] = "done"
        /\ Len(rawChunks[r]) = 1
        /\ Len(rawChunks[r][1]) > 2
        /\ cache.present /\ cache.value = Concat(rawChunks[r])
        /\ Truthy(cachedData[q])
        /\ sent[q] = <<Send(200, "Skins retrieved successfully (from cache)",
                            Parse(Concat(rawChunks[r])))>>

PendingPayloads(r) == {i \in 1..Len(chan[r]) : chan[r][i].ev = "message" /\ ~chan[r][i].null}
PendingNulls(r) == {i \in 1..Len(chan[r]) : chan[r][i].ev = "message" /\ chan[r][i].null}

\* C14: for a successful fetch, exactly one payload message and then exactly
\* one termination message are emitted; the payload is on the stream once it
\* has been handled, the stream is closed once the termination message has been
\* handled, and nothing is written to a closed stream.
C14_OrderedForwarding ==
    [][\A r \in Reqs :
          /\ wpc'[r] = "done" =>
                /\ Len(rawChunks'[r]) + Cardinality(PendingPayloads(r)') = 1
                /\ (IF rawEnded'[r] THEN 1 ELSE 0) + Cardinality(PendingNulls(r)') = 1
                /\ \A i \in PendingPayloads(r)', j \in PendingNulls(r)' : i < j
                /\ rawEnded'[r] => PendingPayloads(r)' = {}
          /\ rawEnded[r] => rawChunks'[r] = rawChunks[r]
          /\ Len(rawChunks'[r]) > Len(rawChunks[r]) =>
                rawChunks'[r] = Append(rawChunks[r], Head(chan[r]).text)]_vars

C14_Witness ==
    \E r \in Reqs :
        /\ wpc[r] = "done"
        /\ Len(rawChunks[r]) = 1
        /\ rawEnded[r]
        /\ chan[r] = <<ExitEv(0)>>
(* ============================= buy claims ============================== *)
\* what the claim calls an invalid request: a field missing or not a number, or amount <= 0
ClaimInvalid(b) ==
    \/ b.userId.type # "number"
    \/ b.amount.type # "number"
    \/ b.amount.num <= 0

\* C15: a buy request with a missing or non-numeric userId or amount, or with
\* amount <= 0, is answered 400 and deductBalance is not entered for it.
C15_InvalidRejectedEarly ==
    \A c \in Calls :
        (buyPc[c] # "idle" /\ ClaimInvalid(buyBody[c]))
        => /\ buyPc[c] = "responded"
           /\ buyReply[c] = <<BuyResponse(400, "Invalid userId or amount", NoUser)>>
           /\ pc[c] = "idle"

\* C16: a buy request gets at most one response and, once handled, exactly
\* one: 400 when validation rejected it (deductBalance never entered), 200
\* with the id and the new balance exactly when deductBalance returned
\* success, and 400 when deductBalance returned a rejection.
C16_BuyStatus ==
    \A c \in Calls :
        /\ Len(buyReply[c]) <= 1
        /\ buyPc[c] = "responded" =>
              /\ Len(buyReply[c]) = 1
              /\ pc[c] = "idle" => buyReply[c][1].status = 400
              /\ pc[c] # "idle" =>
                    /\ pc[c] = "done"
                    /\ buyReply[c][1].status = 200 <=> result[c].success
                    /\ result[c].success =>
                          buyReply[c][1].user = [id |-> userId[c], balance |-> result[c].balance]
                    /\ ~result[c].success =>
                          /\ buyReply[c][1].status = 400
                          /\ buyReply[c][1].msg \in {"User not found", "Insufficient balance"}
        /\ buyPc[c] # "responded" => buyReply[c] = <<>>

\* one request was answered 200, one 400 after a rejection by deductBalance
C16_Witness ==
    \E c \in Calls, d \in Calls :
        /\ buyPc[c] = "responded" /\ result[c].success /\ buyReply[c][1].status = 200
        /\ buyPc[d] = "responded" /\ pc[d] = "done" /\ ~result[d].success
        /\ buyReply[d][1].status = 400
(* ============================= auth claims ============================= *)
\* the header carries, as its second space-separated word, a token that verifies
CarriesValidToken(header) ==
    /\ header.present
    /\ \E i \in 1..Len(header.value) :
          /\ header.value[i] = Space
          /\ \A j \in 1..(i - 1) : header.value[j] # Space
          /\ i < Len(header.value)
          /\ header.value[i + 1] = "good"
          /\ i + 1 < Len(header.value) => header.value[i + 2] = Space

\* the header is absent or has no second word
CarriesNoToken(header) ==
    \/ ~header.present
    \/ \A i \in 1..Len(header.value) : header.value[i] # Space
    \/ \E i \in 1..Len(header.value) :
          /\ header.value[i] = Space
          /\ \A j \in 1..(i - 1) : header.value[j] # Space
          /\ i = Len(header.value) \/ header.value[i + 1] = Space

\* C17: on a route guarded by authJwt the handler runs only for a header
\* whose token verifies; a finished request without a token was answered
\* 403 and one with a token that does not verify 401, the handler not run.
C17_AuthGuard ==
    authRoute.preHandler =>
        /\ handlerRan => CarriesValidToken(authHeader)
        /\ authPc = "done" /\ CarriesNoToken(authHeader)
              => authReply = <<403>> /\ ~handlerRan
        /\ authPc = "done" /\ ~CarriesNoToken(authHeader) /\ ~CarriesValidToken(authHeader)
              => authReply = <<401>> /\ ~handlerRan
        /\ authPc = "done" /\ CarriesValidToken(authHeader)
              => authReply = <<>> /\ handlerRan

\* a request with an expired token was turned away with 401 on the buy route
C17_Witness ==
    /\ authPc = "done"
    /\ authRoute.path = "/buy"
    /\ authHeader = [present |-> TRUE, value |-> <<"Bearer", Space, "expired">>]
    /\ authReply = <<401>>
    /\ ~handlerRan
(* ============================ frame claims ============================= *)
\* C18: a step changes an account's balance, durable or as the session sees
\* it, only if it is a step of a call of deductBalance; steps of getUsers,
\* getUserById, login and changePassword leave every balance as it was.
C18_BalanceFrame ==
    [][\A c \in Calls :
          (Stepped(c) /\ op'[c] # "deductBalance")
          => (committed' = committed /\ working' = working)]_vars

\* a password was changed inside another call's open transaction, after that
\* call wrote a balance, and the balances are still what that call left
C18_Witness ==
    \E c \in Calls, d \in Calls :
        /\ op[c] = "changePassword" /\ pc[c] = "done"
        /\ op[d] = "deductBalance" /\ pc[d] = "commit"
        /\ pwTarget[c] \in Rows
        /\ pwTarget[c] = userId[d]
        /\ pwWorking[pwTarget[c]] = "pw1"
        /\ pwCommitted[pwTarget[c]] = "pw0"
        /\ working[userId[d]] = SeedBalance - amount[d]
(* ============================ lookup claims ============================ *)
\* the parameter writes a positive integer: digits only, and not zero
PositiveInteger(id) ==
    /\ \A i \in 1..Len(id) : id[i] \in DigitChars
    /\ DigitsNumber(id) > 0

\* C19: an id parameter that is not a positive integer is answered 400 and
\* the store is not queried for it; a positive integer is looked up and
\* answered 200 with the user or 404.
C19_IdValidated ==
    lookPc = "done" =>
        IF PositiveInteger(lookId)
        THEN /\ lookQueried
             /\ lookReply = <<IF DigitsNumber(lookId) \in Rows THEN 200 ELSE 404>>
        ELSE /\ ~lookQueried
             /\ lookReply = <<400>>
(* ============================ startup claims =========================== *)
\* C20: whenever a startup has finished the users table holds exactly the
\* three seeded accounts, however many startups there were, and no step of a
\* startup changes a table that already has rows.
C20_SeedIdempotent ==
    /\ [](bootPc = "up" => (tableExists /\ Len(users) = SeedRows))
    /\ [][(bootPc \in {"createTable", "getUsers", "seed"} /\ bootPc' # "down" /\ users # <<>>)
            => users' = users]_vars

\* the service was started again after a debit and came up with the debited
\* balance and the three rows
C20_Witness ==
    /\ bootPc = "up"
    /\ boots >= 2
    /\ existsRows = users
    /\ Len(users) = SeedRows
    /\ \E u \in 1..Len(users) : users[u] < SeedBalance
(* ============================ fault claims ============================= *)
Returned(c) == pc[c] = "done"
Thrown(c) == pc[c] = "thrown"
FailedCmds(c) == {log[c][i].cmd : i \in {j \in 1..Len(log[c]) : ~log[c][j].ok}}

\* C21: the commands of a call come in the order BEGIN, SELECT, then UPDATE
\* and COMMIT or a ROLLBACK: BEGIN is first, UPDATE follows a read that gave
\* a row with balance >= amount, COMMIT follows a successful UPDATE, a call
\* that ended has issued COMMIT or ROLLBACK, a call that returned did so on
\* a successful COMMIT or ROLLBACK, and the step on which it returns leaves
\* no transaction open.
C21_CommandOrder ==
    /\ [](\A c \in Calls :
            /\ log[c] # <<>> => log[c][1].cmd = "BEGIN"
            /\ \A i \in 1..Len(log[c]) :
                  /\ log[c][i].cmd = "UPDATE" =>
                        /\ i > 1 /\ log[c][i - 1] = [cmd |-> "SELECT", ok |-> TRUE]
                        /\ res[c].found /\ res[c].balance >= amount[c]
                  /\ log[c][i].cmd = "COMMIT" =>
                        i > 1 /\ log[c][i - 1] = [cmd |-> "UPDATE", ok |-> TRUE]
            /\ (Returned(c) \/ Thrown(c)) =>
                  \E i \in 1..Len(log[c]) : log[c][i].cmd \in {"COMMIT", "ROLLBACK"}
            /\ Returned(c) =>
                  /\ log[c][Len(log[c])].cmd \in {"COMMIT", "ROLLBACK"}
                  /\ log[c][Len(log[c])].ok)
    /\ [][\A c \in Calls : (Stepped(c) /\ pc'[c] = "done") => ~inTxn']_vars

\* the UPDATE of a call was rejected and the call returned after a ROLLBACK
C21_Witness ==
    \E c \in Calls :
        /\ Returned(c)
        /\ log[c] = << [cmd |-> "BEGIN", ok |-> TRUE], [cmd |-> "SELECT", ok |-> TRUE],
                       [cmd |-> "UPDATE", ok |-> FALSE], [cmd |-> "ROLLBACK", ok |-> TRUE] >>

\* C22: after a ROLLBACK of a call was rejected the call issues no further
\* command, so no second ROLLBACK, and it ends by throwing that error.
C22_RollbackNotRetried ==
    \A c \in Calls : \A i \in 1..Len(log[c]) :
        (log[c][i] = [cmd |-> "ROLLBACK", ok |-> FALSE])
        => /\ i = Len(log[c])
           /\ ~Returned(c)

\* C23: a call throws only if one of its BEGIN, COMMIT, ROLLBACK was
\* rejected, and the buy request is answered 500 only then; a call in which
\* only the read or only the UPDATE was rejected issues a ROLLBACK and
\* returns a rejection, answered 400.
C23_ThrowsOnlyOnControl ==
    \A c \in Calls :
        /\ Thrown(c) => FailedCmds(c) \cap {"BEGIN", "COMMIT", "ROLLBACK"} # {}
        /\ (buyReply[c] # <<>> /\ buyReply[c][1].status = 500) => Thrown(c)
        /\ ((Returned(c) \/ Thrown(c)) /\ FailedCmds(c) \in {{"SELECT"}, {"UPDATE"}}) =>
              /\ Returned(c)
              /\ ~result[c].success
              /\ log[c][Len(log[c])] = [cmd |-> "ROLLBACK", ok |-> TRUE]
              /\ buyPc[c] = "responded" => buyReply[c] = <<BuyResponse(400, result[c].msg, NoUser)>>

\* a request whose read was rejected was answered 400 after a ROLLBACK
C23_Witness ==
    \E c \in Calls :
        /\ FailedCmds(c) = {"SELECT"}
        /\ log[c][Len(log[c])] = [cmd |-> "ROLLBACK", ok |-> TRUE]
        /\ buyPc[c] = "responded"
        /\ buyReply[c][1].status = 400
(* ========================= stampede claims ============================= *)
\* C24: a request is on the miss path exactly if a worker of its own was
\* spawned for it, and that worker fetches at most once, so concurrent
\* misses each have their own fetch; a step that posts to, or forwards from,
\* the channel of one request's worker touches no other request's channel,
\* stream or payload, and what it forwards is the head of that channel.
C24_NoCoalescing ==
    /\ [](\A r \in Reqs :
            /\ rawStarted[r] <=> wpc[r] # "none"
            /\ fetched[r] <= 1
            /\ wpc[r] \in {"done", "failed"} => fetched[r] = 1)
    /\ [][\A r \in Reqs :
            (chan'[r] # chan[r] \/ rawChunks'[r] # rawChunks[r]
                \/ responseData'[r] # responseData[r])
            => /\ \A q \in Reqs \ {r} :
                     /\ chan'[q] = chan[q]
                     /\ rawChunks'[q] = rawChunks[q]
                     /\ responseData'[q] = responseData[q]
               /\ rawChunks'[r] # rawChunks[r] =>
                     /\ chan[r] # <<>>
                     /\ rawChunks'[r] = Append(rawChunks[r], Head(chan[r]).text)
               /\ (responseData'[r] # responseData[r] /\ rpc[r] = "streaming") =>
                     /\ chan[r] # <<>>
                     /\ responseData'[r] = responseData[r] \o Head(chan[r]).text]_vars

\* every request missed and ran a fetch of its own, and two of them streamed
\* different payloads
C24_Witness ==
    /\ \A r \in Reqs : fetched[r] = 1 /\ rawChunks[r] # <<>>
    /\ \E r \in Reqs, q \in Reqs : rawChunks[r] # rawChunks[q]
(* ========================= disconnect claims =========================== *)
\* the payload text still waiting in the channel of request r
IsPayload(e) == e.ev = "message" /\ ~e.null
PendingText(r) ==
    LET waiting == SelectSeq(chan[r], IsPayload)
    IN  Concat([i \in 1..Len(waiting) |-> waiting[i].text])

\* C25: a disconnect cancels nothing: the step on which the client leaves
\* changes neither the worker nor what it posted nor the cache; a worker of
\* a disconnected request goes from running only to done, failed or crashed
\* by its own step; its payload is accumulated as before; and when such a
\* request's worker has terminated cleanly the exit handler writes the full
\* payload to the cache with the 300-second lifetime.
C25_FetchNeverCancelled ==
    /\ [](\A r \in Reqs :
            (disconnected[r] /\ wpc[r] = "done")
            => IsArrayText(responseData[r] \o PendingText(r)))
    /\ [][\A r \in Reqs :
            /\ (disconnected'[r] /\ ~disconnected[r]) =>
                  /\ wpc' = wpc /\ chan' = chan
                  /\ responseData' = responseData /\ cache' = cache
            /\ (disconnected[r] /\ wpc[r] = "running" /\ wpc'[r] # "running") =>
                  /\ wpc'[r] \in {"done", "failed", "crashed"}
                  /\ Len(chan'[r]) > Len(chan[r])
            /\ (disconnected[r] /\ chan'[r] # chan[r] /\ chan[r] # <<>>
                  /\ wpc'[r] = wpc[r] /\ Head(chan[r]).ev = "message" /\ ~Head(chan[r]).null) =>
                  responseData'[r] = responseData[r] \o Head(chan[r]).text
            /\ (disconnected[r] /\ wpc[r] = "done" /\ rpc[r] = "streaming" /\ rpc'[r] = "done") =>
                  /\ cache' = [present |-> TRUE, value |-> responseData[r], ttl |-> CacheTtl]
                  /\ IsArrayText(responseData[r])]_vars

\* the client left while the worker was running, the worker finished its
\* fetch, and the cache holds the payload of that request
C25_Witness ==
    \E r \in Reqs :
        /\ disconnected[r]
        /\ wpc[r] = "done" /\ rpc[r] = "done"
        /\ cache = [present |-> TRUE, value |-> responseData[r], ttl |-> CacheTtl]
        /\ Len(responseData[r]) > 2
(* ========================== cache-aside claims ========================= *)
\* C26: when the lookup of a request resolves and the entry is absent, the
\* request takes the miss path: nothing is sent, a worker is spawned and the
\* raw stream is started; when the entry is present, it takes the hit path:
\* it is answered from the cache and no worker is spawned; and when the
\* worker of a request has terminated with code 0, the exit handler leaves
\* the entry present with the 300-second lifetime. (A lookup that the cache
\* rejects is C12's case.)
C26_AbsenceIsMiss ==
    [][\A r \in Reqs :
          /\ (rpc[r] = "get" /\ rpc'[r] # "get" /\ ~cacheErr'[r]) =>
                IF cache.present
                THEN /\ rpc'[r] = "done"
                     /\ wpc'[r] = "none"
                     /\ sent'[r] = <<Send(200, "Skins retrieved successfully (from cache)",
                                          Parse(cache.value))>>
                ELSE /\ rpc'[r] = "streaming"
                     /\ wpc'[r] = "running"
                     /\ rawStarted'[r]
                     /\ sent'[r] = <<>>
          /\ (rpc[r] = "streaming" /\ rpc'[r] = "done" /\ Head(chan[r]).code = 0) =>
                cache'.present /\ cache'.ttl = CacheTtl]_vars

\* a request filled the cache, the entry expired, and a later request that
\* found it absent fetched and filled it again
C26_Witness ==
    \E r \in Reqs, q \in Reqs :
        /\ rpc[r] = "done" /\ wpc[r] = "done"
        /\ rpc[q] = "done" /\ wpc[q] = "done" /\ ~cachedData[q].present
        /\ responseData[q] # responseData[r]
        /\ cache = [present |-> TRUE, value |-> responseData[q], ttl |-> CacheTtl]
(* ============================ merge claims ============================= *)
\* C27: the merged list has one record per non-tradable entry, in order;
\* record i has the name and the price of non-tradable entry i and the
\* price of tradable entry i, or null when the tradable listing has no
\* entry i; tradable entries past the non-tradable length leave no record.
C27_PositionalMerge ==
    mergePc = "posted" =>
        /\ Len(mergedItems) = Len(responseNonTradable)
        /\ \A i \in 1..Len(mergedItems) :
              /\ mergedItems[i].name = responseNonTradable[i].market_hash_name
              /\ mergedItems[i].min_price_non_tradable = responseNonTradable[i].min_price
              /\ mergedItems[i].min_price_tradable =
                    IF i <= Len(responseTradable) THEN responseTradable[i].min_price ELSE NullPrice
(* ========================= completion claims =========================== *)
\* C28: a reply is completed at most once: a request whose raw stream was
\* started has no send on the same reply, and no reply has two sends.
C28_SingleCompletion ==
    \A r \in Reqs :
        /\ Len(sent[r]) <= 1
        /\ rawStarted[r] => sent[r] = <<>>
====
